---- MODULE Spec2Model ----
(***************************************************************************)
(* Model of src/script.js: a blob confined to a circular arena, moved by   *)
(* drift, wiggle, keyboard pushes and the "H" pull, with a battery and an  *)
(* overheat cooldown on the pull.                                          *)
(*                                                                         *)
(* Numbers.  JavaScript numbers are modelled as fixed-point integers with  *)
(* ONE units per 1.0 (seconds, pixels, pixels per second); every product   *)
(* is rounded to the nearest unit.  Frame timestamps are integers in       *)
(* milliseconds.  A value of Math.random() is an integer r standing for    *)
(* r / RandOne.                                                            *)
(***************************************************************************)
EXTENDS Integers, Sequences, FiniteSets, TLC

VARIABLES
  innerWidth, innerHeight, \* window.innerWidth, window.innerHeight (pixels)
  driftPower,              \* settings.driftPower (the one setting a claim reconfigures)
  rows, directions,        \* const rows, const directions
  playing, x, y, sx, sy,   \* game.*
  keys,                    \* game.keys: a Set, iterated in insertion order
  hLeft, hCooling, hOverheat,
  time, lastFrame,
  driftX, driftY, driftTimer,
  raf,                     \* the pending animation-frame requests: who made each
  timers,                  \* the pending timeouts, in the order they were set
  dom,                     \* what the page shows: blob position, time readout, "flash" classes
  odd,                     \* frames delivered so far at another advance than FramePeriod
  frame,                   \* the locals of the most recent call of loop
  quiet, still, survived,  \* history of the run: see body
  overheats

gameFields == <<playing, x, y, sx, sy, keys, hLeft, hCooling, hOverheat,
                time, lastFrame, driftX, driftY, driftTimer>>
vars == <<innerWidth, innerHeight, driftPower, rows, directions, gameFields,
          raf, timers, dom, odd, frame, quiet, still, survived, overheats>>

----------------------------------------------------------------------------
(* Number representation *)

ONE == 100
RandOne == 16

Max(a, b) == IF a >= b THEN a ELSE b
Min(a, b) == IF a <= b THEN a ELSE b
Abs(a) == IF a < 0 THEN -a ELSE a

\* n / d rounded to the nearest integer (d > 0)
Round(n, d) == (2 * n + d) \div (2 * d)
\* a * b and a / b of two fixed-point numbers
Mul(a, b) == Round(a * b, ONE)
Div(a, b) == Round(a * ONE, b)
\* (r / RandOne) * a
MulRand(r, a) == Round(r * a, RandOne)

----------------------------------------------------------------------------
(* settings *)

blobSize == 40 * ONE
randomShake == 90 * ONE
pushPower == 420 * ONE
slowDown == 97
pullPower == 8 * ONE
hMax == 3 * ONE
hRegen == 60
hCooldown == 1 * ONE
codeDriftPower == 160 * ONE
driftChangeMin == 60
driftChangeMax == 140
\* milliseconds
flashTime == 200
\* the delay of the timeout that takes "flash" off the blob (line 136), in ms
blobFlashTime == 80

----------------------------------------------------------------------------
(* Keyboard map.  A row string is the sequence of its characters. *)

referenceRows ==
  << <<"q","w","e","r","t","y","u","i","o","p">>,
     <<"a","s","d","f","g","h","j","k","l">>,
     <<"z","x","c","v","b","n","m">> >>

zeroVector == [x |-> 0, y |-> 0]

\* Math.max(...rows.map(r => r.length))
RECURSIVE widestFrom(_, _)
widestFrom(rs, i) ==
  IF i > Len(rs) THEN 0 ELSE Max(Len(rs[i]), widestFrom(rs, i + 1))

widestOf(rs) == widestFrom(rs, 1)

\* keyVector with x normalised by the key's own row instead of the widest row
keyVector_ownRow(rs, widest, r, c) ==
  [x |-> Div(c * ONE, (Len(rs[r + 1]) - 1) * ONE) * 2 - ONE,
   y |-> Div(r * ONE, (Len(rs) - 1) * ONE) * 2 - ONE]

\* keyVector with x left in 0..2 (the "- 1" forgotten)
keyVector_uncentred(rs, widest, r, c) ==
  [x |-> Div(c * ONE, (widest - 1) * ONE) * 2,
   y |-> Div(r * ONE, (Len(rs) - 1) * ONE) * 2 - ONE]

\* the {x, y} of the key at row r, column c (both counted from 0)
keyVector(rs, widest, r, c) ==
  [x |-> Div(c * ONE, (widest - 1) * ONE) * 2 - ONE,
   y |-> Div(r * ONE, (Len(rs) - 1) * ONE) * 2 - ONE]

\* map.set(key, value): a later set of the same key replaces the earlier one
mapSet(map, key, value) ==
  [k \in DOMAIN map \cup {key} |-> IF k = key THEN value ELSE map[k]]

\* rows.forEach((row, r) => [...row].forEach((key, c) => map.set(...)))
RECURSIVE setKeysFrom(_, _, _, _, _)
setKeysFrom(map, rs, widest, r, c) ==
  IF r >= Len(rs) THEN map
  ELSE IF c >= Len(rs[r + 1]) THEN setKeysFrom(map, rs, widest, r + 1, 0)
  ELSE setKeysFrom(mapSet(map, rs[r + 1][c + 1], keyVector(rs, widest, r, c)),
                   rs, widest, r, c + 1)

makeKeyMap(rs) == setKeysFrom(<<>>, rs, widestOf(rs), 0, 0)

\* for (const k of game.keys) ...: ks is game.keys in insertion order
RECURSIVE getKeyDirectionFrom(_, _, _)
getKeyDirectionFrom(ks, dirs, i) ==
  IF i > Len(ks) THEN zeroVector
  ELSE IF ks[i] = "h" THEN getKeyDirectionFrom(ks, dirs, i + 1)
  ELSE IF ks[i] \in DOMAIN dirs THEN dirs[ks[i]]
  ELSE getKeyDirectionFrom(ks, dirs, i + 1)

\* getKeyDirection without the "continue" on 'h'
RECURSIVE getKeyDirection_withH(_, _)
getKeyDirection_withH(ks, dirs) ==
  IF ks = <<>> THEN zeroVector
  ELSE IF Head(ks) \in DOMAIN dirs THEN dirs[Head(ks)]
  ELSE getKeyDirection_withH(Tail(ks), dirs)

getKeyDirection(ks, dirs) == getKeyDirectionFrom(ks, dirs, 1)

\* e.key.toLowerCase(), for the key names the model delivers
upperKeys == [H |-> "h", Q |-> "q"]

toLowerCase(k) == IF k \in DOMAIN upperKeys THEN upperKeys[k] ELSE k

has(ks, k) == \E i \in 1..Len(ks) : ks[i] = k

\* Set.prototype.add: a key already in the set keeps its place
setAdd(ks, k) == IF has(ks, k) THEN ks ELSE Append(ks, k)

\* Set.prototype.delete
setDelete(ks, k) == SelectSeq(ks, LAMBDA e : e # k)

----------------------------------------------------------------------------
(* Inputs: the values the environment supplies, drawn from small sets *)

\* values of Math.random(), in units of 1 / RandOne: 0.5 and 0.6875
RandSet == {8, 11}
\* performance.now() when the module is evaluated (line 48), in ms
loadTime == 500
\* the regular advance of the frame timestamp from one frame to the next, in ms
FramePeriod == 1000
\* the other advances a frame may show: none (the same timestamp again) and
\* half a period
OddSteps == {0, 500}
\* how far before loadTime the first frame's timestamp may lie, in ms
EarlyFirst == {500}
\* the last timestamp delivered is loadTime + MaxSeconds seconds
MaxSeconds == 6
\* at most this many frames of a run come at another advance than FramePeriod
MaxOdd == 1
\* values of Math.random() at the ends and in the middle of its range [0, 1)
RandEdge == {0, RandOne \div 2, RandOne - 1}
\* the advance of the frame timestamp on a display refreshing faster than the
\* blob's flash lasts, in ms
FastPeriod == 50
\* the number of frames delivered at that rate
MaxFast == 5
\* the viewport sizes <<innerWidth, innerHeight>> of a run: an arena of radius
\* 35 px, and one whose radius (14 px) is less than half the blob size
WindowSizes == {<<100, 100>>, <<40, 40>>}
\* the key names of the keydown / keyup events sent to the game
GameKeys == {"h", "H", "q"}

\* The timestamps the scheduler may pass to the next call of loop.  Frame
\* timestamps never decrease from one frame to the next; the first frame's
\* timestamp is not ordered against performance.now() read at load.
Timestamps ==
  {t \in {lastFrame + FramePeriod}
         \cup {lastFrame + s : s \in OddSteps}
         \cup (IF raf # <<>> /\ Head(raf) = "setup" THEN {lastFrame - e : e \in EarlyFirst} ELSE {}) :
     /\ t <= loadTime + MaxSeconds * 1000
     /\ (t # lastFrame + FramePeriod => odd < MaxOdd)}

----------------------------------------------------------------------------
(* Arena geometry *)

center == [x |-> Round(innerWidth * ONE, 2), y |-> Round(innerHeight * ONE, 2)]

radius == Mul(Min(innerWidth, innerHeight) * ONE, 35)

\* Math.hypot(dx, dy) > limit, decided on the squares
hypotExceeds(dx, dy, limit) ==
  IF limit < 0 THEN TRUE
  ELSE IF Abs(dx) > limit \/ Abs(dy) > limit THEN TRUE
  ELSE dx * dx + dy * dy > limit * limit

\* the test of line 153 with >= for >
outOfCircle_inclusive(px, py) ==
  LET limit == radius - Round(blobSize, 2)
  IN hypotExceeds(px - center.x, py - center.y, limit)
       \/ (px - center.x) * (px - center.x) + (py - center.y) * (py - center.y)
            = limit * limit

\* the test of line 153 at position (px, py)
outOfCircle(px, py) ==
  hypotExceeds(px - center.x, py - center.y, radius - Round(blobSize, 2))

----------------------------------------------------------------------------
(* pickNewDrift, with the three values Math.random() returns, in order *)

\* pickNewDrift with the timer drawn from [0, span) (driftChangeMin forgotten)
pickNewDrift_noMin(r1, r2, r3) ==
  [driftX |-> MulRand(r1 * 2 - RandOne, driftPower),
   driftY |-> MulRand(r2 * 2 - RandOne, driftPower),
   driftTimer |-> MulRand(r3, driftChangeMax - driftChangeMin)]

pickNewDrift(r1, r2, r3) ==
  [driftX |-> MulRand(r1 * 2 - RandOne, driftPower),
   driftY |-> MulRand(r2 * 2 - RandOne, driftPower),
   driftTimer |-> driftChangeMin + MulRand(r3, driftChangeMax - driftChangeMin)]

----------------------------------------------------------------------------
(* loop(now) *)

\* lines 104-105
canUseH == ~hOverheat /\ hLeft > 0
\* usingH without canUseH: active whenever 'h' is held
usingH_whenHeld == has(keys, "h")
usingH == has(keys, "h") /\ canUseH

\* battery with the cooldown not floored at 0 (Math.max forgotten on line 139)
battery_noFloor(active, dt) ==
  IF active
  THEN LET left == Max(0, hLeft - dt)
       IN [hLeft |-> left,
           hOverheat |-> IF left = 0 THEN TRUE ELSE hOverheat,
           hCooling |-> IF left = 0 THEN hCooldown ELSE hCooling]
  ELSE IF hOverheat
  THEN LET cooling == hCooling - dt
       IN [hLeft |-> hLeft,
           hOverheat |-> IF cooling = 0 THEN FALSE ELSE hOverheat,
           hCooling |-> cooling]
  ELSE [hLeft |-> Min(hMax, hLeft + Mul(hRegen, dt)),
        hOverheat |-> hOverheat,
        hCooling |-> hCooling]

\* battery with the charge regenerating on every step that is not active, the
\* overheated ones included (the "else" of line 141 forgotten)
battery_regenWhileCooling(active, dt) ==
  IF active
  THEN LET left == Max(0, hLeft - dt)
       IN [hLeft |-> left,
           hOverheat |-> IF left = 0 THEN TRUE ELSE hOverheat,
           hCooling |-> IF left = 0 THEN hCooldown ELSE hCooling]
  ELSE LET cooling == IF hOverheat THEN Max(0, hCooling - dt) ELSE hCooling
       IN [hLeft |-> Min(hMax, hLeft + Mul(hRegen, dt)),
           hOverheat |-> IF hOverheat /\ cooling = 0 THEN FALSE ELSE hOverheat,
           hCooling |-> cooling]

\* battery with the charge regenerating already on the step that clears the
\* overheat flag
battery_regenOnClear(active, dt) ==
  IF active
  THEN LET left == Max(0, hLeft - dt)
       IN [hLeft |-> left,
           hOverheat |-> IF left = 0 THEN TRUE ELSE hOverheat,
           hCooling |-> IF left = 0 THEN hCooldown ELSE hCooling]
  ELSE IF hOverheat
  THEN LET cooling == Max(0, hCooling - dt)
       IN [hLeft |-> IF cooling = 0 THEN Min(hMax, hLeft + Mul(hRegen, dt))
                     ELSE hLeft,
           hOverheat |-> IF cooling = 0 THEN FALSE ELSE hOverheat,
           hCooling |-> cooling]
  ELSE [hLeft |-> Min(hMax, hLeft + Mul(hRegen, dt)),
        hOverheat |-> hOverheat,
        hCooling |-> hCooling]

\* battery with the regeneration not scaled by dt (the "* dt" of line 142
\* forgotten)
battery_regenPerStep(active, dt) ==
  IF active
  THEN LET left == Max(0, hLeft - dt)
       IN [hLeft |-> left,
           hOverheat |-> IF left = 0 THEN TRUE ELSE hOverheat,
           hCooling |-> IF left = 0 THEN hCooldown ELSE hCooling]
  ELSE IF hOverheat
  THEN LET cooling == Max(0, hCooling - dt)
       IN [hLeft |-> hLeft,
           hOverheat |-> IF cooling = 0 THEN FALSE ELSE hOverheat,
           hCooling |-> cooling]
  ELSE [hLeft |-> Min(hMax, hLeft + hRegen),
        hOverheat |-> hOverheat,
        hCooling |-> hCooling]

\* lines 124-144: the battery after a step of dt
battery(active, dt) ==
  IF active
  THEN LET left == Max(0, hLeft - dt)
       IN [hLeft |-> left,
           hOverheat |-> IF left = 0 THEN TRUE ELSE hOverheat,
           hCooling |-> IF left = 0 THEN hCooldown ELSE hCooling]
  ELSE IF hOverheat
  THEN LET cooling == Max(0, hCooling - dt)
       IN [hLeft |-> hLeft,
           hOverheat |-> IF cooling = 0 THEN FALSE ELSE hOverheat,
           hCooling |-> cooling]
  ELSE [hLeft |-> Min(hMax, hLeft + Mul(hRegen, dt)),
        hOverheat |-> hOverheat,
        hCooling |-> hCooling]

\* lines 114-117: what the wiggle adds to one velocity component, w being the
\* value Math.random() returned
wiggle(active, w, dt) ==
  IF active THEN 0 ELSE Mul(MulRand(w - RandOne \div 2, randomShake), dt)

\* the elapsed time with dt left in milliseconds (the "/1000" forgotten)
elapsed_inMilliseconds(over, dt) == IF over THEN time ELSE time + dt * 1000

\* the elapsed time after a step: it advances only where the step ends alive
elapsed(over, dt) == IF over THEN time ELSE time + dt

\* the text of the time readout: the number toFixed(1) prints, in tenths, and
\* how many times " - Game Over" has been appended to it
readout(t, overs) == [time |-> Round(t * 10, ONE), overs |-> overs]

\* Util.setPositionPixels(game.x - blobSize/2, game.y - blobSize/2, blob)
drawBlob(px, py) == [x |-> px - Round(blobSize, 2), y |-> py - Round(blobSize, 2)]

\* the requests still pending while a callback runs: the one being served has
\* been taken off the list
served == IF raf = <<>> THEN <<>> ELSE Tail(raf)

\* requested with the "return" of line 158 forgotten: the step that ends the
\* session requests a frame too
requested_always(over) == Append(served, "loop")

\* the pending requests after a step: line 172 is reached only where the step
\* ends alive
requested(over) == IF over THEN served ELSE Append(served, "loop")

\* lines 103-172, with the values Math.random() returns where it is called.
\* frame records the locals dt and usingH, whether 'h' was held, whether
\* pickNewDrift was called, what the pull added to the velocity and whether
\* the step, and the step before it, cleared the overheat flag; quiet
\* counts the steps of a run that so far consists only of steps of dt = 1 s
\* with no key held (-1 once it does not), and still tells whether every
\* wiggle so far was drawn as 0.5, that is, added nothing; survived is the sum
\* of dt over the steps that ended alive, and overheats counts the times the
\* overheat flag was set.  A timeout is due its delay after
\* the timestamp of the frame that set it.
body(dt, r1, r2, r3, w1, w2) ==
  LET c == center
      active == usingH
      timer == driftTimer - dt
      drift == IF timer <= 0 THEN pickNewDrift(r1, r2, r3)
               ELSE [driftX |-> driftX, driftY |-> driftY, driftTimer |-> timer]
      sx1 == sx + Mul(drift.driftX, dt)
      sy1 == sy + Mul(drift.driftY, dt)
      sx2 == sx1 + wiggle(active, w1, dt)
      sy2 == sy1 + wiggle(active, w2, dt)
      d == getKeyDirection(keys, directions)
      sx3 == sx2 + Mul(Mul(d.x, pushPower), dt)
      sy3 == sy2 + Mul(Mul(d.y, pushPower), dt)
      pull == IF active THEN <<Mul(Mul(c.x - x, pullPower), dt),
                               Mul(Mul(c.y - y, pullPower), dt)>>
              ELSE <<0, 0>>
      sx4 == sx3 + pull[1]
      sy4 == sy3 + pull[2]
      b == battery(active, dt)
      x1 == x + Mul(sx4, dt)
      y1 == y + Mul(sy4, dt)
      over == outOfCircle(x1, y1)
  IN /\ driftX' = drift.driftX
     /\ driftY' = drift.driftY
     /\ driftTimer' = drift.driftTimer
     /\ hLeft' = b.hLeft
     /\ hOverheat' = b.hOverheat
     /\ hCooling' = b.hCooling
     /\ x' = x1
     /\ y' = y1
     /\ sx' = Mul(sx4, slowDown)
     /\ sy' = Mul(sy4, slowDown)
     /\ playing' = ~over
     /\ time' = elapsed(over, dt)
     /\ raf' = requested(over)
     /\ timers' = timers
                    \o (IF active
                        THEN <<[due |-> lastFrame' + blobFlashTime, el |-> "blob"]>>
                        ELSE <<>>)
                    \o (IF over
                        THEN <<[due |-> lastFrame' + flashTime, el |-> "arena"]>>
                        ELSE <<>>)
     /\ dom' = [blob |-> IF over THEN dom.blob ELSE drawBlob(x1, y1),
                text |-> IF over THEN [dom.text EXCEPT !.overs = @ + 1]
                         ELSE readout(elapsed(over, dt), 0),
                flash |-> dom.flash \cup (IF active THEN {"blob"} ELSE {})
                                    \cup (IF over THEN {"arena"} ELSE {})]
     /\ survived' = IF over THEN survived ELSE survived + dt
     /\ overheats' = IF ~hOverheat /\ b.hOverheat THEN overheats + 1 ELSE overheats
     /\ frame' = [ran |-> TRUE, dt |-> dt, held |-> has(keys, "h"), usingH |-> active,
                  drew |-> timer <= 0, pull |-> pull,
                  cleared |-> hOverheat /\ ~b.hOverheat,
                  afterClear |-> frame.cleared]
     /\ quiet' = IF quiet >= 0 /\ dt = ONE /\ keys = <<>> THEN quiet + 1 ELSE -1
     /\ still' = (still /\ (active \/ (w1 = RandOne \div 2 /\ w2 = RandOne \div 2)))

\* lines 99-100, and the bookkeeping of the frames delivered
enter(now) ==
  /\ lastFrame' = now
  /\ odd' = IF now # lastFrame + FramePeriod THEN odd + 1 ELSE odd
  /\ UNCHANGED <<innerWidth, innerHeight, driftPower, rows, directions, keys>>

\* lines 103-172 with every value Math.random() may return; it is called only
\* where the code calls it
run(dt) ==
  \E r1, r2, r3 \in (IF driftTimer - dt <= 0 THEN RandSet ELSE {0}) :
    \E w1, w2 \in (IF usingH THEN {0} ELSE RandSet) :
      body(dt, r1, r2, r3, w1, w2)

\* loop without the guard of line 101
loop_noGuard(now) ==
  enter(now) /\ run(Round((now - lastFrame) * ONE, 1000))

loop(now) ==
  LET dt == Round((now - lastFrame) * ONE, 1000)
  IN /\ enter(now)
     /\ IF ~playing
        THEN /\ UNCHANGED <<playing, x, y, sx, sy, hLeft, hCooling, hOverheat,
                            time, driftX, driftY, driftTimer>>
             /\ raf' = served
             /\ UNCHANGED <<timers, dom, survived, overheats>>
             /\ frame' = [ran |-> FALSE, dt |-> dt, held |-> FALSE, usingH |-> FALSE,
                          drew |-> FALSE, pull |-> <<0, 0>>, cleared |-> FALSE,
                          afterClear |-> FALSE]
             /\ quiet' = -1
             /\ still' = still
        ELSE run(dt)

----------------------------------------------------------------------------
(* setup() and the handlers it registers *)

Setup(power, layout) ==
  /\ driftPower = power
  /\ \E ws \in WindowSizes : innerWidth = ws[1] /\ innerHeight = ws[2]
  /\ rows = layout
  /\ directions = makeKeyMap(rows)
  /\ playing = TRUE
  /\ x = Round(innerWidth * ONE, 2)
  /\ y = Round(innerHeight * ONE, 2)
  /\ sx = 0
  /\ sy = 0
  /\ keys = <<>>
  /\ hLeft = hMax
  /\ hCooling = 0
  /\ hOverheat = FALSE
  /\ time = 0
  /\ lastFrame = loadTime
  /\ \E r1, r2, r3 \in RandSet :
       LET drift == pickNewDrift(r1, r2, r3)
       IN /\ driftX = drift.driftX
          /\ driftY = drift.driftY
          /\ driftTimer = drift.driftTimer
  /\ raf = <<"setup">>
  /\ timers = <<>>
  /\ dom = [blob |-> drawBlob(x, y), text |-> readout(0, 0), flash |-> {}]
  /\ survived = 0
  /\ overheats = 0
  /\ odd = 0
  /\ frame = [ran |-> FALSE, dt |-> 0, held |-> FALSE, usingH |-> FALSE,
              drew |-> FALSE, pull |-> <<0, 0>>, cleared |-> FALSE,
                          afterClear |-> FALSE]
  /\ quiet = 0
  /\ still = TRUE

Init == Setup(codeDriftPower, referenceRows)

\* the keydown listener (lines 199-201)
KeyDown(key, repeat) ==
  /\ keys' = IF ~repeat THEN setAdd(keys, toLowerCase(key)) ELSE keys
  /\ UNCHANGED <<innerWidth, innerHeight, driftPower, rows, directions,
                 playing, x, y, sx, sy, hLeft, hCooling, hOverheat, time,
                 lastFrame, driftX, driftY, driftTimer, raf, odd, frame,
                 quiet, still, timers, dom, survived, overheats>>

\* the keyup listener (lines 202-204)
KeyUp(key) ==
  /\ keys' = setDelete(keys, toLowerCase(key))
  /\ UNCHANGED <<innerWidth, innerHeight, driftPower, rows, directions,
                 playing, x, y, sx, sy, hLeft, hCooling, hOverheat, time,
                 lastFrame, driftX, driftY, driftTimer, raf, odd, frame,
                 quiet, still, timers, dom, survived, overheats>>

\* a timeout that was due before the time now has not run yet
Overdue(now) == \E i \in 1..Len(timers) : timers[i].due < now

\* the oldest pending animation-frame request is served, once the timeouts
\* due before the frame's timestamp have run
Frame(now) == raf # <<>> /\ ~Overdue(now) /\ loop(now)

\* the callbacks of lines 136 and 156: the timeout set first runs first, and
\* not before a frame that comes before it is due (stamps being the
\* timestamps the next frame may bear)
Timeout(stamps) ==
  /\ timers # <<>>
  /\ raf = <<>> \/ stamps = {} \/ \E t \in stamps : t >= Head(timers).due
  /\ dom' = [dom EXCEPT !.flash = @ \ {Head(timers).el}]
  /\ timers' = Tail(timers)
  /\ UNCHANGED <<innerWidth, innerHeight, driftPower, rows, directions,
                 gameFields, raf, odd, frame, quiet, still, survived,
                 overheats>>

Next ==
  \/ \E key \in GameKeys, repeat \in BOOLEAN : KeyDown(key, repeat)
  \/ \E key \in GameKeys : KeyUp(key)
  \/ \E now \in Timestamps : Frame(now)
  \/ Timeout(Timestamps)

Spec == Init /\ [][Next]_vars

----------------------------------------------------------------------------
(* loop as a function any driver may call: besides the frames it requests  *)
(* itself, it is called while no frame is pending, which is after the      *)
(* session has ended.                                                      *)

DriverCall(now) == raf = <<>> /\ loop(now)

NextDriver ==
  \/ Next
  \/ \E now \in Timestamps : DriverCall(now)

SpecDriver == Init /\ [][NextDriver]_vars

----------------------------------------------------------------------------
(* The program with a scheduler that keeps working: a requested frame is   *)
(* delivered and a due timeout runs, as long as the model has a timestamp  *)
(* left to deliver.  Every frame comes with dt > 0, and the key events are  *)
(* those of the ability key.                                               *)

LaterStamps == {t \in Timestamps : t > lastFrame}

NextLive ==
  \/ KeyDown("h", FALSE)
  \/ KeyUp("h")
  \/ \E now \in LaterStamps : Frame(now)
  \/ Timeout(LaterStamps)

SpecLive ==
  /\ Init
  /\ [][NextLive]_vars
  /\ WF_vars(\E now \in LaterStamps : Frame(now))
  /\ WF_vars(Timeout(LaterStamps))

----------------------------------------------------------------------------
(* The session with 'h' pressed before the first frame and held from then  *)
(* on, and the frames at a constant interval, a whole or half a period.    *)

HeldStamps ==
  {t \in (IF frame.ran THEN {lastFrame + frame.dt * 10}
          ELSE {lastFrame + FramePeriod, lastFrame + FramePeriod \div 2}) :
     t <= loadTime + MaxSeconds * 1000}

NextHeld ==
  \/ ~frame.ran /\ KeyDown("h", FALSE)
  \/ \E now \in HeldStamps : has(keys, "h") /\ Frame(now)
  \/ Timeout(HeldStamps)

SpecHeld == Init /\ [][NextHeld]_vars

----------------------------------------------------------------------------
(* The first frames of a session on a fast display: a frame every          *)
(* FastPeriod ms, less than the delay of the blob's flash timeout.         *)

FastStamps ==
  {t \in {lastFrame + FastPeriod} : t <= loadTime + MaxFast * FastPeriod}

NextFast ==
  \/ KeyDown("h", FALSE)
  \/ KeyUp("h")
  \/ \E now \in FastStamps : Frame(now)
  \/ Timeout(FastStamps)

SpecFast == Init /\ [][NextFast]_vars

----------------------------------------------------------------------------
(* The session with settings.driftPower configured to 0 *)

InitNoDrift == Setup(0, referenceRows)

SpecNoDrift == InitNoDrift /\ [][Next]_vars

----------------------------------------------------------------------------
(* makeKeyMap and getKeyDirection as functions of their inputs: the layout *)
(* is drawn from Layouts and the held keys are built by the two listeners. *)

Layouts ==
  { referenceRows,
    << <<"a","b">>, <<"c","d">> >>,
    << <<"a","b","c">>, <<"d","e">> >> }

AllKeys == {"h", "H", "q", "Q", "a", "d", "1"}

InitKeys == \E layout \in Layouts : Setup(codeDriftPower, layout)

NextKeys ==
  \/ \E key \in AllKeys, repeat \in BOOLEAN : KeyDown(key, repeat)
  \/ \E key \in AllKeys : KeyUp(key)

SpecKeys == InitKeys /\ [][NextKeys]_vars

----------------------------------------------------------------------------
(* Claims *)

\* a step of the behaviour is a call of loop: only loop sets lastFrame or odd
LoopCalled == lastFrame' # lastFrame \/ odd' # odd

\* a call of loop that ran past the guard of line 101
StepRan == LoopCalled /\ frame'.ran

\* C1: after any sequence of loop() steps the ability charge hLeft is within
\* [0, hMax] and the cooldown remaining hCooling is >= 0.
C1_ChargeAndCooldownInRange ==
  /\ 0 <= hLeft /\ hLeft <= hMax
  /\ hCooling >= 0

\* C2: hOverheat is false initially; it is true exactly from an ability-active
\* step that depleted the charge to 0 (which starts the cooldown) until the
\* cooldown has counted down to 0; so hOverheat implies hLeft = 0 and
\* hCooling > 0, and not hOverheat implies hCooling = 0.
OverheatShape ==
  /\ hOverheat => hLeft = 0 /\ hCooling > 0
  /\ ~hOverheat => hCooling = 0

C2_OverheatIffDepletedAndCooling ==
  /\ ~hOverheat
  /\ OverheatShape
  /\ [][/\ OverheatShape'
        /\ (~hOverheat /\ hOverheat') =>
             (StepRan /\ frame'.usingH /\ hLeft > 0 /\ hLeft' = 0
                /\ hCooling' = hCooldown)
        /\ (StepRan /\ frame'.usingH /\ hLeft' = 0) => hOverheat'
        /\ (hOverheat /\ ~hOverheat') => (StepRan /\ hCooling' = 0)
        /\ (hOverheat /\ hOverheat') => hCooling' <= hCooling
       ]_vars

\* C2 witness: overheated, with the cooldown partly counted down
C2_Witness ==
  hOverheat /\ playing /\ 0 < hCooling /\ hCooling < hCooldown

\* C3 as stated: once playing is false, every later call of loop leaves every
\* field of game unchanged, and playing never becomes true again.
C3_DeadCallChangesNothing ==
  [][~playing => (~playing' /\ (LoopCalled => UNCHANGED gameFields))]_vars

\* C3 amended: once playing is false, every later call of loop leaves every
\* field of game other than lastFrame unchanged (lastFrame is set to now), and
\* playing never becomes true again.
C3_DeadCallChangesOnlyLastFrame ==
  [][~playing =>
       (/\ ~playing'
        /\ LoopCalled =>
             (/\ UNCHANGED <<playing, x, y, sx, sy, keys, hLeft, hCooling,
                             hOverheat, time, driftX, driftY, driftTimer>>
              /\ ~frame'.ran))]_vars

\* C3 witness: loop has been called after the session ended
C3_Witness == ~playing /\ ~frame.ran /\ lastFrame > loadTime

\* C4: a step whose dt is zero or negative is a no-op: velocity, position,
\* charge, cooldown, overheat, drift vector, drift timer, elapsed time and the
\* alive flag are all unchanged by it.
C4_NonPositiveDtIsNoOp ==
  [][(StepRan /\ frame'.dt <= 0) =>
       UNCHANGED <<sx, sy, x, y, hLeft, hCooling, hOverheat, driftX, driftY,
                   driftTimer, time, playing>>]_vars

\* C5: a step ends the session exactly when the distance from the position it
\* has just integrated to the arena centre is strictly greater than the arena
\* radius minus half the blob size; at exactly that distance the session stays
\* alive.
Threshold == (35 * Min(innerWidth, innerHeight) * ONE) \div 100 - blobSize \div 2

Farther(px, py, limit) ==
  LET dx == Abs(px - (innerWidth * ONE) \div 2)
      dy == Abs(py - (innerHeight * ONE) \div 2)
  IN limit < 0 \/ dx > limit \/ dy > limit
       \/ dx * dx + dy * dy > limit * limit

C5_BoundaryIsStrict ==
  [][StepRan => (playing' <=> ~Farther(x', y', Threshold))]_vars

\* C5 witness: a step has ended alive at exactly the threshold distance
C5_Witness ==
  /\ playing /\ frame.ran
  /\ ~Farther(x, y, Threshold)
  /\ Farther(x, y, Threshold - 1)
  /\ (x - center.x) * (x - center.x) + (y - center.y) * (y - center.y)
       = Threshold * Threshold

\* C6: with 'h' held on a step that starts from a positive charge,
\* the charge strictly decreases on that step; on the step where it becomes 0
\* the overheat flag becomes true, and no pull is added on any step that starts
\* with the overheat flag true.
C6_ChargeDecreasesEveryStep ==
  [][/\ (StepRan /\ frame'.held /\ hLeft > 0) =>
          (/\ hLeft' < hLeft
           /\ hLeft' = 0 => hOverheat')
     /\ (StepRan /\ hOverheat) => ~frame'.usingH
    ]_vars

\* The statement of C6 restricted to the steps with dt > 0.
ChargeDecreasesEveryPositiveStep ==
  [][/\ (StepRan /\ frame'.held /\ hLeft > 0 /\ frame'.dt > 0) =>
          (/\ frame'.usingH
           /\ hLeft' < hLeft
           /\ hLeft' = 0 <=> hOverheat')
     /\ (StepRan /\ hOverheat) => ~frame'.usingH
    ]_vars

\* 'h' is still held on a step that started overheated, after the charge was
\* depleted to 0
HeldWhileOverheated ==
  frame.ran /\ frame.held /\ ~frame.usingH /\ hOverheat /\ hLeft = 0 /\ playing

\* C7 as stated: from the initial state, with no key held and driftPower 0,
\* after 5 consecutive steps of dt = 1 s the position is still the arena
\* centre, the elapsed time is 5.0 and the session is alive, whatever
\* Math.random() returns.
C7_FiveQuietSteps ==
  quiet = 5 =>
    (x = center.x /\ y = center.y /\ time = 5 * ONE /\ playing)

\* C7 amended: the same when every value Math.random() returns for the wiggle
\* is 0.5 (any other value moves the blob off the centre) and the arena radius
\* is at least half the blob size.
C7_FiveQuietStepsWithoutWiggle ==
  (quiet = 5 /\ still /\ Threshold >= 0) =>
    (x = center.x /\ y = center.y /\ sx = 0 /\ sy = 0 /\ time = 5 * ONE
       /\ playing)

\* C7 witness: five such steps have been taken
C7_Witness == quiet = 5 /\ still /\ Threshold >= 0 /\ driftPower = 0

\* C8: makeKeyMap(rows) maps the character at row r, column c to
\* x = (c/(W-1))*2-1 and y = (r/(R-1))*2-1, W being the length of the widest
\* row and R the number of rows; makeKeyMap(["ab","cd"]) yields a->(-1,-1),
\* b->(1,-1), c->(-1,1), d->(1,1).  (x and y are compared with the exact
\* quotient up to the rounding of the number representation.)
WidestRow == CHOOSE w \in {Len(rows[i]) : i \in 1..Len(rows)} :
               \A i \in 1..Len(rows) : Len(rows[i]) <= w

C8_KeyMapFormula ==
  /\ DOMAIN directions = UNION {{rows[i][j] : j \in 1..Len(rows[i])} : i \in 1..Len(rows)}
  /\ \A i \in 1..Len(rows) : \A j \in 1..Len(rows[i]) :
       LET v == directions[rows[i][j]]
       IN /\ Abs(v.x * (WidestRow - 1) - (2 * (j - 1) - (WidestRow - 1)) * ONE)
               <= WidestRow - 1
          /\ Abs(v.y * (Len(rows) - 1) - (2 * (i - 1) - (Len(rows) - 1)) * ONE)
               <= Len(rows) - 1
  /\ rows = << <<"a","b">>, <<"c","d">> >> =>
       directions = [a |-> [x |-> -ONE, y |-> -ONE], b |-> [x |-> ONE, y |-> -ONE],
                     c |-> [x |-> -ONE, y |-> ONE], d |-> [x |-> ONE, y |-> ONE]]

\* C8 witness: the 2 x 2 layout, and a layout whose rows differ in length
C8_Witness ==
  \/ rows = << <<"a","b">>, <<"c","d">> >> /\ keys = <<"a">>
  \/ rows = << <<"a","b","c">>, <<"d","e">> >> /\ keys = <<"d">>

\* C9: getKeyDirection() returns the vector of the first key, in insertion
\* order of the held keys, that is in the key map and is not 'h'; unmapped
\* keys and 'h' are skipped; the zero vector when no held key is eligible.
Eligible == {i \in 1..Len(keys) : keys[i] # "h" /\ keys[i] \in DOMAIN directions}

C9_FirstEligibleKey ==
  getKeyDirection(keys, directions) =
    IF Eligible = {} THEN [x |-> 0, y |-> 0]
    ELSE directions[keys[CHOOSE i \in Eligible : \A j \in Eligible : i <= j]]

\* C9 witness: 'h' (a mapped key) and an unmapped key were pressed before two
\* mapped keys
C9_Witness ==
  /\ Len(keys) = 4 /\ keys[1] = "h" /\ keys[2] = "1"
  /\ {keys[3], keys[4]} \subseteq DOMAIN directions
  /\ "h" \in DOMAIN directions
  /\ directions[keys[3]] # directions[keys[4]]

\* C10: for the reference layout no two keys share a vector, both components
\* of every vector lie in [-1, +1], and held keys that are not in the map
\* contribute the zero vector.
C10_ReferenceLayout ==
  rows = referenceRows =>
    (/\ \A k1, k2 \in DOMAIN directions :
          k1 # k2 => directions[k1] # directions[k2]
     /\ \A k \in DOMAIN directions :
          /\ -ONE <= directions[k].x /\ directions[k].x <= ONE
          /\ -ONE <= directions[k].y /\ directions[k].y <= ONE
     /\ Cardinality(DOMAIN directions) = 26
     /\ (\A i \in 1..Len(keys) : keys[i] \notin DOMAIN directions) =>
          getKeyDirection(keys, directions) = [x |-> 0, y |-> 0]
     /\ getKeyDirection(keys, directions) =
          getKeyDirection(SelectSeq(keys, LAMBDA k : k \in DOMAIN directions),
                          directions))

\* C10 witness: with the reference layout, an unmapped key is held before a
\* mapped one
C10_Witness ==
  rows = referenceRows /\ Len(keys) >= 2 /\ keys[1] = "1" /\ keys[2] = "q"

\* C11: a step whose decrement brings the drift timer to <= 0 resamples the
\* drift vector and the timer in that same step, the new timer within
\* [driftChangeMin, driftChangeMax] and each drift component within
\* [-driftPower, +driftPower] (for the values drawn in the run and for the ends
\* of the range of Math.random()); the drift timer is > 0 at the end of setup
\* and at the end of every step.
InDriftRange(d) ==
  /\ driftChangeMin <= d.driftTimer /\ d.driftTimer <= driftChangeMax
  /\ -driftPower <= d.driftX /\ d.driftX <= driftPower
  /\ -driftPower <= d.driftY /\ d.driftY <= driftPower

C11_DriftTimerResampledPositive ==
  /\ driftTimer > 0
  /\ \A r1, r2, r3 \in RandEdge : InDriftRange(pickNewDrift(r1, r2, r3))
  /\ [][/\ driftTimer' > 0
        /\ (StepRan /\ driftTimer - frame'.dt <= 0) =>
             (/\ frame'.drew
              /\ InDriftRange([driftTimer |-> driftTimer', driftX |-> driftX',
                               driftY |-> driftY']))
        /\ (StepRan /\ driftTimer - frame'.dt > 0) =>
             (/\ ~frame'.drew
              /\ driftTimer' = driftTimer - frame'.dt
              /\ UNCHANGED <<driftX, driftY>>)
       ]_vars

\* C11 witness: the last step resampled the drift, and the session goes on
C11_Witness == frame.ran /\ frame.drew /\ playing /\ driftTimer > 0

\* C12: in every step the ability is active exactly when 'h' is held, the
\* overheat flag is false and the charge is > 0, all taken at the start of the
\* step; the velocity the step leaves is the old velocity plus drift and push,
\* plus the pull towards the centre and no wiggle when the ability is active,
\* plus a wiggle and no pull when it is not, all times slowDown.
C12_ActiveIffHeldReadyCharged ==
  [][StepRan =>
       LET act == has(keys, "h") /\ ~hOverheat /\ hLeft > 0
           dt == frame'.dt
           d == getKeyDirection(keys, directions)
           bx == sx + Mul(driftX', dt) + Mul(Mul(d.x, pushPower), dt)
           by == sy + Mul(driftY', dt) + Mul(Mul(d.y, pushPower), dt)
           shake(w) == Mul(MulRand(w - RandOne \div 2, randomShake), dt)
       IN /\ frame'.usingH = act
          /\ act =>
               /\ sx' = Mul(bx + Mul(Mul((innerWidth * ONE) \div 2 - x, pullPower), dt), slowDown)
               /\ sy' = Mul(by + Mul(Mul((innerHeight * ONE) \div 2 - y, pullPower), dt), slowDown)
          /\ ~act =>
               \E w1, w2 \in RandSet :
                 /\ sx' = Mul(bx + shake(w1), slowDown)
                 /\ sy' = Mul(by + shake(w2), slowDown)
    ]_vars

\* C12 witness: an active step has added a pull to the velocity, in a run where
\* an earlier step, not active, added a wiggle
C12_Witness ==
  frame.ran /\ frame.usingH /\ frame.pull # <<0, 0>> /\ ~still /\ time > 0

\* C13: every step makes exactly one of three ability updates.  Active: the
\* charge is depleted by dt, floored at 0, and the cooldown is not decremented
\* (reaching 0 sets the overheat flag and then starts the cooldown at
\* hCooldown).  Not active and overheated: the cooldown is decremented by dt,
\* floored at 0, and the charge stays 0 (reaching 0 clears the flag).
\* Otherwise: the charge regenerates by hRegen * dt, capped at hMax, and the
\* flag and the cooldown are unchanged.  The charge never changes on a step
\* that starts overheated, and the cooldown never changes on a step that
\* starts and ends with the overheat flag false.
C13_OneAbilityUpdatePerStep ==
  [][StepRan =>
       LET dt == frame'.dt
           lower(a, b) == IF a <= b THEN a ELSE b
           higher(a, b) == IF a >= b THEN a ELSE b
       IN /\ frame'.usingH =>
               /\ ~hOverheat
               /\ hLeft' = higher(0, hLeft - dt)
               /\ hOverheat' = (hLeft' = 0)
               /\ hCooling' = IF hLeft' = 0 THEN hCooldown ELSE hCooling
          /\ (~frame'.usingH /\ hOverheat) =>
               /\ hLeft = 0 /\ hLeft' = 0
               /\ hCooling' = higher(0, hCooling - dt)
               /\ hOverheat' = (hCooling' # 0)
          /\ (~frame'.usingH /\ ~hOverheat) =>
               /\ hLeft' = lower(hMax, hLeft + (hRegen * dt + ONE \div 2) \div ONE)
               /\ UNCHANGED <<hOverheat, hCooling>>
          /\ hOverheat => hLeft' = hLeft
          /\ (~hOverheat /\ ~hOverheat') => hCooling' = hCooling
    ]_vars

\* C13 witness: the charge has regenerated from 0 on the step after the step
\* that cleared the overheat flag, in a run that depleted it and cooled down
C13_Witness ==
  /\ frame.ran /\ ~frame.usingH /\ frame.dt > 0 /\ playing
  /\ ~hOverheat /\ hCooling = 0
  /\ hLeft = (hRegen * frame.dt + ONE \div 2) \div ONE

\* C14: the step on which the cooldown reaches 0 clears the overheat flag with
\* the charge still 0 (no regeneration in that step); the step right after it
\* is not active, whether or not 'h' is held, and is a regeneration step.
C14_NotActiveRightAfterClear ==
  [][/\ (StepRan /\ hOverheat /\ hCooling' = 0) =>
          (~hOverheat' /\ hLeft' = 0 /\ frame'.cleared)
     /\ (StepRan /\ frame'.cleared) =>
          (hOverheat /\ ~hOverheat' /\ hCooling' = 0 /\ hLeft' = 0)
     /\ (StepRan /\ frame.cleared) =>
          (/\ ~frame'.usingH
           /\ hLeft' = (hRegen * frame'.dt + ONE \div 2) \div ONE
           /\ ~hOverheat')
    ]_vars

\* C14 witness: 'h' was held on the step right after the one that cleared the
\* overheat flag; that step was not active and regenerated the charge
C14_Witness ==
  /\ frame.ran /\ frame.afterClear /\ frame.held /\ ~frame.usingH /\ frame.dt > 0
  /\ ~hOverheat /\ playing
  /\ hLeft = (hRegen * frame.dt + ONE \div 2) \div ONE

\* What a step does with the elapsed time: a step that ends alive advances it
\* by dt, redraws the blob at the new position and requests the next frame; the
\* step whose boundary check fails leaves the elapsed time and the drawn blob
\* as they were and requests no frame, while the position stays the integrated
\* one, outside the circle.  The elapsed time is the sum of dt over the steps
\* that ended alive.
ElapsedTimeIsSurvivedTime ==
  /\ [](time = survived)
  /\ [][StepRan =>
          /\ playing' =>
               /\ time' = time + frame'.dt
               /\ dom'.blob = [x |-> x' - blobSize \div 2, y |-> y' - blobSize \div 2]
               /\ raf' = <<"loop">>
          /\ ~playing' =>
               /\ time' = time
               /\ dom'.blob = dom.blob
               /\ raf' = <<>>
               /\ Farther(x', y', Threshold)
      ]_vars

\* C15: the elapsed time is advanced by dt only in steps that end alive (the
\* step whose boundary check fails does not advance it, does not redraw the
\* blob and requests no further frame, and keeps the integrated position);
\* hence it never decreases and equals the sum of dt over the steps survived.
C15_ElapsedTimeNeverDecreases ==
  /\ ElapsedTimeIsSurvivedTime
  /\ [][time' >= time]_vars

\* the step that ended the session left the elapsed time of the steps before
\* it, and the blob drawn where those had left it
EndedWithoutAdvancing ==
  ~playing /\ frame.ran /\ time > 0 /\ time = survived /\ raf = <<>>

\* C16: at most one frame callback is pending at any moment: exactly one while
\* the session is alive, none once playing is false; the game-over signal (the
\* "flash" class put on the arena and the suffix appended to the time readout)
\* is emitted by the step that sets playing to false and by no other, so
\* exactly once per session.
C16_OneFramePendingOneGameOver ==
  /\ [](/\ Len(raf) <= 1
        /\ playing <=> raf # <<>>
        /\ dom.text.overs = IF playing THEN 0 ELSE 1
        /\ "arena" \in dom.flash => ~playing)
  /\ [][/\ (playing /\ ~playing') =>
             (StepRan /\ "arena" \in dom'.flash /\ dom'.text.overs = 1)
        /\ (dom'.text.overs # dom.text.overs
              \/ ("arena" \in dom'.flash /\ "arena" \notin dom.flash)) =>
             (StepRan /\ playing /\ ~playing')
        /\ ~playing => ~playing'
       ]_vars

\* C16 witness: the session has ended, the signal was emitted once, and the
\* timeout of the arena flash has run
C16_Witness ==
  /\ ~playing /\ raf = <<>> /\ dom.text.overs = 1
  /\ timers = <<>> /\ "arena" \notin dom.flash

\* the model has no further frame to deliver: the last timestamp is reached
FramesEnded == LaterStamps = {}

\* C17: overheat is never permanent: while the session stays alive and frames
\* keep arriving with dt > 0, every step that starts overheated brings the
\* cooldown strictly closer to 0 without passing it and clears the flag when
\* it gets there, whatever keys are held; so from every state with overheat
\* true a state with overheat false is reached (unless the session ends, or
\* the frames do, first).
C17_OverheatNeverPermanent ==
  /\ [][(StepRan /\ hOverheat /\ frame'.dt > 0) =>
          (/\ ~frame'.usingH
           /\ 0 <= hCooling' /\ hCooling' < hCooling
           /\ hCooling <= hCooldown
           /\ hOverheat' = (hCooling' > 0))]_vars
  /\ (hOverheat ~> (~hOverheat \/ ~playing \/ FramesEnded))

\* C17 witness: a step has cleared the overheat flag while 'h' was held, and
\* the session goes on
C17_Witness == frame.ran /\ frame.cleared /\ frame.held /\ playing /\ ~hOverheat

\* C18: with 'h' held on every frame and a constant frame interval dt > 0,
\* every active step after the first overheat starts from the charge
\* hRegen * dt < dt of a single regeneration step and ends with the charge 0
\* and the overheat flag true again: the step after the one that clears the
\* flag regenerates, the step after that is active, so the pull is applied on
\* exactly one step of each cooldown cycle.
C18_OneActiveStepPerCycle ==
  [][/\ (StepRan /\ frame'.usingH /\ overheats >= 1) =>
          (/\ frame.afterClear
           /\ hLeft = (hRegen * frame'.dt + ONE \div 2) \div ONE
           /\ hLeft < frame'.dt
           /\ hLeft' = 0 /\ hOverheat')
     /\ (StepRan /\ frame.cleared) => (~frame'.usingH /\ ~hOverheat')
     /\ (StepRan /\ frame.afterClear) => frame'.usingH
     /\ (StepRan /\ overheats >= 1 /\ ~frame.afterClear) => ~frame'.usingH
    ]_vars

\* C18 witness: the second overheat, one cooldown cycle after the first
C18_Witness ==
  /\ overheats = 2 /\ hOverheat /\ playing
  /\ frame.ran /\ frame.usingH /\ frame.held

\* C19: the "flash" class an active step puts on the blob stays on the blob
\* until the timeout set by that same step has run: as long as the timeout of
\* some active step is pending, the blob has the class.
C19_FlashStaysUntilOwnTimeout ==
  (\E i \in 1..Len(timers) : timers[i].el = "blob") => "blob" \in dom.flash

====
